---- MODULE Spec2Model ----
(***************************************************************************)
(* Model of QT.py, a Streamlit survey page.  Streamlit runs main() from    *)
(* top to bottom once per user event (a widget edit, a button click, a     *)
(* manual rerun); st.session_state survives between runs, local variables  *)
(* such as pos_order do not.  One action of the model is one user event     *)
(* together with the whole script run (and the st.experimental_rerun() it   *)
(* may request) that the event triggers.                                    *)
(***************************************************************************)
EXTENDS Integers, Sequences, FiniteSets, TLC

VARIABLES
    fs,              \* entries on disk below BASE_DIR: <<tree, category, name>> is
                     \* a regular file, <<tree, category, name, "dir">> a folder
    rater_name,      \* value of the st.text_input widget
    has_state,       \* "triplets_list" in st.session_state
    triplets_list,   \* st.session_state.triplets_list
    current_idx,     \* st.session_state.current_idx
    responses,       \* st.session_state.responses
    choice,          \* value of the st.radio widget keyed choice_<current_idx>
    screen,          \* what the last script run rendered
    notice,          \* messages of the finalize branch in the last run
    results_file,    \* content of RESULTS_FILENAME on disk
    sent,            \* attachments of the emails delivered so far
    writes,          \* number of completed df.to_excel calls
    finalize_clicks, \* number of runs of lines 91-103 (finalize button pressed)
    seen,            \* history: provenance of the image the rater had in the
                     \* chosen slot on screen when "Next Image" was clicked
    event,           \* the user event that triggered the last script run
    runs             \* finalize runs of concurrent sessions of the server: per
                     \* session its responses, its position in lines 91-99
                     \* and the bytes it read for the attachment

vars == <<fs, rater_name, has_state, triplets_list, current_idx, responses,
          choice, screen, notice, results_file, sent, writes, finalize_clicks,
          seen, event, runs>>

session == <<has_state, triplets_list, current_idx, responses>>
delivery == <<results_file, sent, writes, finalize_clicks>>

---------------------------------------------------------------------------
(* Bounds *)

\* The number of clicks on the finalize button that are explored.
MaxFinalize == 2

---------------------------------------------------------------------------
(* Configuration constants, QT.py lines 16-28 *)

IMAGE_DIR == "images"
DEPTHPRO_DIR == "depthpro"
ENDODAC_DIR == "endodac"
DEPTH_CATEGORIES == <<"high", "mid", "low">>
COLUMNS == <<"rater_name", "filename", "category", "chosen_model">>

\* What the rater may type in the name field: nothing, a blank, two names.
Names == {"", " ", "alice", "bob"}
Options == {"Option A", "Option B"}
Models == {"DepthPro", "EndoDac"}

\* The directory layouts the sessions are run on.  The first is the layout
\* of the end-to-end scenario: b.png is missing from the third tree.
Layouts ==
    { {},
      { <<IMAGE_DIR, "high", "a.png">>, <<DEPTHPRO_DIR, "high", "a.png">>,
        <<ENDODAC_DIR, "high", "a.png">>,
        <<IMAGE_DIR, "high", "b.png">>, <<DEPTHPRO_DIR, "high", "b.png">> },
      { <<IMAGE_DIR, "high", "a.png">>, <<DEPTHPRO_DIR, "high", "a.png">>,
        <<ENDODAC_DIR, "high", "a.png">>,
        <<IMAGE_DIR, "low", "a.png">>, <<DEPTHPRO_DIR, "low", "a.png">>,
        <<ENDODAC_DIR, "low", "a.png">>,
        <<IMAGE_DIR, "mid", "b.png">> },
      { <<IMAGE_DIR, "mid", "a.png">>, <<DEPTHPRO_DIR, "mid", "a.png">>,
        <<ENDODAC_DIR, "mid", "a.png">>,
        <<IMAGE_DIR, "mid", "b.png">>, <<DEPTHPRO_DIR, "mid", "b.png">>,
        <<ENDODAC_DIR, "mid", "b.png">> } }

---------------------------------------------------------------------------
(* collect_image_triplets, QT.py lines 33-56 *)

Range(s) == {s[i] : i \in DOMAIN s}

\* os.path.exists in the place of os.path.isfile: folders count as well.
exists(files, dir, cat, f) ==
    \E p \in files : p[1] = dir /\ p[2] = cat /\ p[3] = f

\* os.path.isfile(os.path.join(dir, cat, f))
isfile(files, dir, cat, f) == <<dir, cat, f>> \in files

\* os.listdir(images/<cat>): the names below the category folder, of files
\* and of folders.
listdir(files, dir, cat) == {p[3] : p \in {q \in files : q[1] = dir /\ q[2] = cat}}

\* The tuple appended at line 54.
Triplet(cat, f) ==
    [img_path |-> <<IMAGE_DIR, cat, f>>, dp_path |-> <<DEPTHPRO_DIR, cat, f>>,
     ed_path |-> <<ENDODAC_DIR, cat, f>>, cat |-> cat, filename |-> f]

\* The triplets the loops of lines 39-54 append (in listdir's order, which
\* random.shuffle at line 80 discards).
collect_image_triplets(files) ==
    { Triplet(cat, f) : <<cat, f>> \in
        { cf \in Range(DEPTH_CATEGORIES) \X {p[3] : p \in files} :
            /\ cf[2] \in listdir(files, IMAGE_DIR, cf[1])
            /\ isfile(files, IMAGE_DIR, cf[1], cf[2])
            /\ isfile(files, DEPTHPRO_DIR, cf[1], cf[2])
            /\ isfile(files, ENDODAC_DIR, cf[1], cf[2]) } }

\* random.shuffle(all_triplets): every ordering of the collected triplets.
shuffle(items) ==
    { p \in [1..Cardinality(items) -> items] :
        \A i, j \in 1..Cardinality(items) : i # j => p[i] # p[j] }

---------------------------------------------------------------------------
(* Pieces of main(), QT.py lines 61-161 *)

\* The check of line 68 left out.
NoName_never(name) == FALSE

\* line 68: if not rater_name
NoName(name) == name = ""

\* The session state rebuilt in every run.
NeedsInit_always(present) == TRUE

\* line 76: "triplets_list" not in st.session_state
NeedsInit(present) == ~present

\* The completion branch taken whatever the cursor.
IsComplete_always(idx, tl) == TRUE

\* line 86: current_idx >= len(triplets_list)
IsComplete(idx, tl) == idx >= Len(tl)

\* The first item read instead of the item at the cursor.
CurrentItem_first(tl, idx) == tl[1]

\* line 108: triplets_list[current_idx] (Python indexes from 0)
CurrentItem(tl, idx) == tl[idx + 1]

\* lines 124-133, the paths: pos0 is pos_order[0] after random.shuffle
modelA_path(item, pos0) == IF pos0 = "A" THEN item.dp_path ELSE item.ed_path
modelB_path(item, pos0) == IF pos0 = "A" THEN item.ed_path ELSE item.dp_path

\* lines 124-133, the labels
modelA_label(pos0) == IF pos0 = "A" THEN "DepthPro" ELSE "EndoDac"
modelB_label(pos0) == IF pos0 = "A" THEN "EndoDac" ELSE "DepthPro"

\* lines 154-157
chosen_model(chosen, labelA, labelB) ==
    IF chosen = "Option A" THEN labelA ELSE labelB

\* line 159: the list appended to responses
Judgment(name, item, model) == <<name, item.filename, item.cat, model>>

\* The cursor moved by two.
Advance_skip(idx) == idx + 2

\* The cursor left where it is.
Advance_stay(idx) == idx

\* line 160
Advance(idx) == idx + 1

\* The sheet written without its header row.
to_excel_noheader(rs) == rs

\* lines 91-94: pd.DataFrame(responses, columns=...).to_excel(..., index=False)
\* writes a header row of the column names and one row per response.
to_excel(rs) == <<COLUMNS>> \o rs

\* The tree an image path lies in says which model produced the image.
Provenance(path) ==
    IF path = <<>> THEN "none"
    ELSE IF path[1] = DEPTHPRO_DIR THEN "DepthPro" ELSE "EndoDac"

---------------------------------------------------------------------------
(* What a script run leaves on the page *)

NoPath == <<>>
PromptScreen == [kind |-> "prompt", item |-> 0, optA |-> NoPath, optB |-> NoPath]
CompleteScreen == [kind |-> "complete", item |-> 0, optA |-> NoPath, optB |-> NoPath]
\* lines 108-150: trial number idx with the images under Option A and Option B
TrialScreen(tl, idx, pos0) ==
    [kind |-> "trial", item |-> idx + 1,
     optA |-> modelA_path(CurrentItem(tl, idx), pos0),
     optB |-> modelB_path(CurrentItem(tl, idx), pos0)]

\* A run that reaches line 86 with no button pressed: lines 86-88 and 105,
\* or lines 108-150.
Render(tl, idx, pos0) ==
    IF IsComplete(idx, tl) THEN CompleteScreen ELSE TrialScreen(tl, idx, pos0)

Init ==
    /\ fs \in Layouts
    /\ rater_name = ""
    /\ has_state = FALSE
    /\ triplets_list = <<>>
    /\ current_idx = 0
    /\ responses = <<>>
    /\ choice = "Option A"
    /\ screen = PromptScreen
    /\ notice = "none"
    /\ results_file = <<>>
    /\ sent = <<>>
    /\ writes = 0
    /\ finalize_clicks = 0
    /\ seen = <<>>
    /\ event = "open"
    /\ runs = <<>>

---------------------------------------------------------------------------
(* The finalize branch, QT.py lines 90-103, and send_results_email *)

\* What df.to_excel leaves behind when it raises half way
Corrupt == <<<<"corrupt">>>>

\* The outcomes of the I/O steps of the branch: all succeed, to_excel raises
\* (leaving the file as it was, or half written), or one of the steps of
\* send_results_email raises (open/read, SMTP_SSL connect, login,
\* send_message).
MailFaults == {"read_fail", "connect_fail", "login_fail", "send_fail"}
Outcomes == {"ok", "write_fail", "write_partial"} \cup MailFaults

\* lines 174-175: the bytes read back from the file
read_file(file) == file

\* Only the SMTP errors caught: a failing open() or connect leaves the function
\* as an exception.
send_results_email_narrow(io) ==
    IF io \in {"read_fail", "connect_fail"} THEN "raise"
    ELSE IF io \in MailFaults THEN "False" ELSE "True"

\* send_results_email, lines 166-204: what the call returns.  Every
\* exception of lines 173-199 ends in the except clause of line 202.
send_results_email(io) == IF io \in MailFaults THEN "False" ELSE "True"

\* The mail sent a second time in the same run.
Finalize_resend(rs, io) ==
    /\ finalize_clicks' = finalize_clicks + 1
    /\ results_file' = to_excel(rs)
    /\ writes' = writes + 1
    /\ sent' = sent \o <<read_file(to_excel(rs)), read_file(to_excel(rs))>>
    /\ notice' = "emailed"

\* A failing to_excel caught and the mail sent all the same.
Finalize_send_anyway(rs, io) ==
    /\ finalize_clicks' = finalize_clicks + 1
    /\ results_file' = IF io = "write_fail" THEN results_file
                       ELSE IF io = "write_partial" THEN Corrupt ELSE to_excel(rs)
    /\ writes' = IF io \in {"write_fail", "write_partial"} THEN writes ELSE writes + 1
    /\ sent' = IF io \in MailFaults THEN sent ELSE Append(sent, read_file(results_file'))
    /\ notice' = IF io \in {"write_fail", "write_partial"} THEN "exception"
                 ELSE IF io \in MailFaults THEN "email_failed" ELSE "emailed"

\* lines 90-103 with the button pressed.  A failing to_excel raises out of
\* main(): nothing after line 94 runs.  Lines 99-103 report what
\* send_results_email returned.
Finalize(rs, io) ==
    /\ finalize_clicks' = finalize_clicks + 1
    /\ IF io \in {"write_fail", "write_partial"}
       THEN /\ results_file' = IF io = "write_fail" THEN results_file ELSE Corrupt
            /\ notice' = "exception"
            /\ UNCHANGED <<writes, sent>>
       ELSE /\ results_file' = to_excel(rs)
            /\ writes' = writes + 1
            /\ sent' = IF io = "ok" THEN Append(sent, read_file(to_excel(rs))) ELSE sent
            /\ notice' = CASE send_results_email(io) = "True" -> "emailed"
                          [] send_results_email(io) = "False" -> "email_failed"
                          [] OTHER -> "exception"

\* The session started over once the results are sent.
CompletePage_restart(ev, idx, rs, io) ==
    /\ current_idx' = IF ev = "finalize" THEN 0 ELSE idx
    /\ responses' = IF ev = "finalize" THEN <<>> ELSE rs
    /\ screen' = CompleteScreen
    /\ choice' = "Option A"
    /\ seen' = seen
    /\ IF ev = "finalize"
       THEN Finalize(rs, io)
       ELSE /\ notice' = "none"
            /\ UNCHANGED delivery

\* lines 86-105: the completion message, the finalize button, st.stop()
CompletePage(ev, idx, rs, io) ==
    /\ current_idx' = idx
    /\ responses' = rs
    /\ screen' = CompleteScreen
    /\ choice' = "Option A"
    /\ seen' = seen
    /\ IF ev = "finalize"
       THEN Finalize(rs, io)
       ELSE /\ notice' = "none"
            /\ UNCHANGED delivery

\* lines 108-161: the trial at the cursor and the "Next Image" button.  With
\* the button pressed the run records, advances and asks for a rerun, which
\* renders what comes next with a fresh pos_order.
TrialPage(ev, name, chosen, tl, idx, rs, pos0, pos1) ==
    /\ notice' = "none"
    /\ UNCHANGED delivery
    /\ IF ev = "next"
       THEN /\ responses' = Append(rs,
                 Judgment(name, CurrentItem(tl, idx),
                          chosen_model(chosen, modelA_label(pos0), modelB_label(pos0))))
            /\ current_idx' = Advance(idx)
            /\ seen' = Append(seen, Provenance(
                 IF chosen = "Option A" THEN screen.optA ELSE screen.optB))
            /\ screen' = Render(tl, Advance(idx), pos1)
            /\ choice' = "Option A"
       ELSE /\ current_idx' = idx
            /\ responses' = rs
            /\ seen' = seen
            /\ screen' = TrialScreen(tl, idx, pos0)
            /\ choice' = chosen

---------------------------------------------------------------------------
(* One run of main(), QT.py lines 61-161 *)

\* ev: the event that triggered the run; name, chosen: the values the
\* text_input and radio widgets return in it; perm: the outcome of
\* random.shuffle at line 80; pos0, pos1: pos_order[0] after the shuffle of
\* line 121 in this run and in the run st.experimental_rerun() starts;
\* io: the outcome of the file and mail steps.
main(ev, name, chosen, perm, pos0, pos1, io) ==
    /\ event' = ev
    /\ rater_name' = name
    /\ fs' = fs
    /\ runs' = runs
    /\ IF NoName(name)
       THEN \* lines 68-70: st.stop() before any session operation.  The
            \* radio is not rendered, so Streamlit drops its value.
            /\ screen' = PromptScreen
            /\ choice' = "Option A"
            /\ notice' = "none"
            /\ UNCHANGED <<session, delivery, seen>>
       ELSE LET \* lines 76-83
                tl == IF NeedsInit(has_state) THEN perm ELSE triplets_list
                idx == IF NeedsInit(has_state) THEN 0 ELSE current_idx
                rs == IF NeedsInit(has_state) THEN <<>> ELSE responses
            IN  /\ has_state' = TRUE
                /\ triplets_list' = tl
                /\ IF IsComplete(idx, tl)
                   THEN CompletePage(ev, idx, rs, io)
                   ELSE TrialPage(ev, name, chosen, tl, idx, rs, pos0, pos1)

Slots == {"A", "B"}

\* The run gets to line 108: a name is given and the cursor is not at the
\* end of the pool (a pool built in this run is looked at in main).
ReachesTrial(name) ==
    /\ ~NoName(name)
    /\ NeedsInit(has_state) \/ ~IsComplete(current_idx, triplets_list)

\* A script run with the random and I/O outcomes it may meet: the shuffle of
\* line 80 happens in the run that creates the session state, the shuffle
\* of line 121 in a run that gets to the trial, the I/O in a run with the
\* finalize button pressed, the second shuffle of pos_order in the rerun
\* line 161 requests.
Run(ev, name, chosen) ==
    \E perm \in IF NeedsInit(has_state) THEN shuffle(collect_image_triplets(fs))
                 ELSE {triplets_list},
       pos0 \in IF ReachesTrial(name) THEN Slots ELSE {"A"},
       pos1 \in IF ev = "next" /\ ReachesTrial(name) THEN Slots ELSE {"A"},
       io \in IF ev = "finalize" THEN Outcomes ELSE {"ok"} :
        main(ev, name, chosen, perm, pos0, pos1, io)

---------------------------------------------------------------------------
(* User events *)

\* The rater edits the name field.
EditName == \E n \in Names : n # rater_name /\ Run("edit", n, choice)

\* The rater picks the other radio option of the trial on screen.
ChangeRadio ==
    /\ screen.kind = "trial"
    /\ \E o \in Options : o # choice /\ Run("radio", rater_name, o)

\* A click on "Next Image" reaches the script.  The click is on the page
\* the browser shows, which may still be the page of an earlier run: the
\* conditions of main() decide what the click does.
ClickNext == Run("next", rater_name, choice)

\* A click on "Finalize & Send Results via Email" reaches the script.
ClickFinalize ==
    /\ finalize_clicks < MaxFinalize
    /\ Run("finalize", rater_name, choice)

\* The rater asks for a rerun of the page (no widget changes).
Rerun == Run("rerun", rater_name, choice)

\* The first run with a name on a fresh page: lines 76-83 build the pool.
StartSession ==
    /\ ~has_state
    /\ \E n \in Names \ {""} : Run("edit", n, choice)

Next == EditName \/ ChangeRadio \/ ClickNext \/ ClickFinalize \/ Rerun

Spec == Init /\ [][Next]_vars

---------------------------------------------------------------------------
(* Properties *)

Complete == has_state /\ current_idx = Len(triplets_list)

\* str.strip() of the name is empty: the name is empty or only blanks.
IsBlank(name) == name \in {"", " "}

\* C1: every recorded chosen_model is the model whose image the rater had on
\* screen in the slot they chose when they clicked "Next Image".
C1_ChosenModelIsShownModel ==
    \A i \in DOMAIN responses : responses[i][4] = seen[i]

\* C2: the cursor stays within 0..len(triplets_list) and the number of
\* recorded responses equals the cursor.
C2_CursorInRangeAndLogLength ==
    /\ 0 <= current_idx
    /\ current_idx <= Len(triplets_list)
    /\ Len(responses) = current_idx

C2_Witness ==
    has_state /\ Len(triplets_list) = 2 /\ current_idx = 2 /\ event = "next"

\* C3: all responses of a session carry one and the same rater name.
C3_OneRaterPerSession ==
    \A i, j \in DOMAIN responses : responses[i][1] = responses[j][1]

\* C4: the i-th response carries the filename and the category of the i-th
\* item of triplets_list.
C4_ResponseMatchesItem ==
    \A i \in DOMAIN responses :
        /\ i \in DOMAIN triplets_list
        /\ responses[i][2] = triplets_list[i].filename
        /\ responses[i][3] = triplets_list[i].cat

C4_Witness ==
    /\ Len(responses) = 2
    /\ <<responses[1][2], responses[1][3]>> # <<responses[2][2], responses[2][3]>>

\* C5: the cursor and the responses change only in a run with "Next Image"
\* pressed, and then the cursor grows by exactly 1 and exactly one response
\* is appended.
C5_CursorStepsByOneOnNext ==
    [][(current_idx' # current_idx \/ responses' # responses) =>
          /\ event' = "next"
          /\ current_idx' = current_idx + 1
          /\ Len(responses') = Len(responses) + 1
          /\ SubSeq(responses', 1, Len(responses)) = responses]_vars

C5_Witness ==
    event = "next" /\ current_idx = 1 /\ Len(responses) = 1 /\ Len(triplets_list) = 2

\* C6: once the cursor equals the pool length, no run changes the cursor,
\* the responses or the pool, whatever button was pressed: the session
\* stays complete.
C6_CompleteIsTerminal ==
    [][Complete => /\ Complete'
                   /\ current_idx' = current_idx
                   /\ responses' = responses
                   /\ screen'.kind # "trial"]_vars

C6_Witness ==
    Complete /\ Len(triplets_list) = 2 /\ event = "next" /\ screen.kind = "complete"

\* C7, as claimed: a run with an empty or blank name and no session yet
\* creates no session and presents no trial.
C7_BlankNameCreatesNoSession ==
    [][(~has_state /\ IsBlank(rater_name')) =>
          /\ ~has_state'
          /\ UNCHANGED <<triplets_list, current_idx, responses>>
          /\ screen'.kind = "prompt"]_vars

\* C7, amended: a run with an empty name and no session yet creates no
\* session and presents no trial (a name of blanks is accepted as a name).
C7_EmptyNameCreatesNoSession ==
    [][(~has_state /\ rater_name' = "") =>
          /\ ~has_state'
          /\ UNCHANGED <<triplets_list, current_idx, responses>>
          /\ screen'.kind = "prompt"]_vars

C7_Witness ==
    ~has_state /\ rater_name = "" /\ event = "rerun" /\ screen.kind = "prompt"

\* C8: a run that presents the trial already on screen, with "Next Image"
\* not pressed, leaves the cursor, the responses and the pool as they are
\* and presents the same item.
C8_RenderIsPureRead ==
    [][(screen.kind = "trial" /\ screen'.kind = "trial" /\ event' # "next") =>
          /\ UNCHANGED <<current_idx, responses, triplets_list>>
          /\ screen'.item = screen.item
          /\ {screen'.optA, screen'.optB} = {screen.optA, screen.optB}]_vars

C8_Witness ==
    /\ event = "rerun" /\ screen.kind = "trial" /\ current_idx = 1
    /\ Provenance(screen.optA) = "EndoDac"

\* C9: the results file is written only when the session is complete, and
\* a written file holds the header (rater_name, filename, category,
\* chosen_model) and then exactly the responses, one per pool item, in order.
C9_ExportOnlyCompleteLog ==
    /\ (writes > 0 \/ results_file # <<>> \/ sent # <<>>) => Complete
    /\ results_file \notin {<<>>, Corrupt} =>
          /\ Len(results_file) = Len(triplets_list) + 1
          /\ results_file[1] = <<"rater_name", "filename", "category", "chosen_model">>
          /\ \A i \in 1..Len(triplets_list) :
                /\ results_file[i + 1] = responses[i]
                /\ results_file[i + 1][1] \in Names \ {""}
                /\ results_file[i + 1][2] = triplets_list[i].filename
                /\ results_file[i + 1][3] = triplets_list[i].cat
                /\ results_file[i + 1][4] \in Models

C9_Witness ==
    writes > 0 /\ Len(results_file) = 3 /\ Len(triplets_list) = 2

\* C10, as claimed: in a session the results file is written at most once
\* and the email is sent at most once.
C10_ExportAndDeliveryAtMostOnce ==
    writes <= 1 /\ Len(sent) <= 1

\* C10, amended: the file is written and the email is sent only in a run
\* with the finalize button pressed on a complete session, at most once in
\* each such run, and the email is sent only after the file was written.
C10_ExportAndDeliveryOncePerClick ==
    [][/\ writes' \in {writes, writes + 1}
       /\ sent' = sent \/ (writes' = writes + 1 /\ sent' = Append(sent, results_file'))
       /\ (writes' # writes \/ sent' # sent \/ results_file' # results_file) =>
             (event' = "finalize" /\ Complete /\ finalize_clicks' = finalize_clicks + 1)]_vars

C10_Witness ==
    writes = 2 /\ Len(sent) = 2 /\ finalize_clicks = 2

\* C11: a run that wrote the results file ends with the success or the
\* failure message of lines 100-103, never with an exception; when the
\* email failed, the file written in that run is on disk with the rows of
\* the responses, no email was added, and the session is as it was.
C11_MailFailureIsReported ==
    [][/\ writes' = writes + 1 => notice' \in {"emailed", "email_failed"}
       /\ notice' = "email_failed" =>
                /\ writes' = writes + 1
                /\ results_file' = <<COLUMNS>> \o responses
                /\ sent' = sent
                /\ UNCHANGED <<has_state, triplets_list, current_idx, responses>>
                /\ Complete']_vars

C11_Witness ==
    /\ notice = "email_failed" /\ writes = 1 /\ sent = <<>>
    /\ Len(results_file) = 3 /\ Len(responses) = 2

\* C12: a run in which writing the results file fails ends in an exception
\* with no email sent and no write counted, leaves the pool, the cursor and
\* the responses as they were, and leaves the completion page with the
\* finalize button on screen.
C12_WriteFailureAborts ==
    [][notice' = "exception" =>
          /\ event' = "finalize"
          /\ sent' = sent
          /\ writes' = writes
          /\ UNCHANGED <<has_state, triplets_list, current_idx, responses>>
          /\ Complete'
          /\ screen'.kind = "complete"]_vars

C12_Witness ==
    /\ notice = "exception" /\ results_file = Corrupt /\ writes = 1
    /\ Len(responses) = 2 /\ Complete

---------------------------------------------------------------------------
(* collect_image_triplets on arbitrary directory contents *)

Trees == {IMAGE_DIR, DEPTHPRO_DIR, ENDODAC_DIR}
Kinds == {"none", "file", "dir"}

\* The slots of a directory tree that are filled in every way: one name in
\* two categories, and two names in one category.
SlotsAcross == Trees \X {"high", "low"} \X {"a.png"}
SlotsWithin == Trees \X {"mid"} \X {"a.png", "b.png"}

\* The entries on disk when slot p holds what k[p] says.
Entries(k) ==
    {p \in DOMAIN k : k[p] = "file"}
        \cup {<<p[1], p[2], p[3], "dir">> : p \in {q \in DOMAIN k : k[q] = "dir"}}

BuilderLayouts ==
    {Entries(k) : k \in [SlotsAcross -> Kinds]}
        \cup {Entries(k) : k \in [SlotsWithin -> Kinds]}

BuilderInit ==
    /\ fs \in BuilderLayouts
    /\ rater_name = ""
    /\ has_state = FALSE
    /\ triplets_list = <<>>
    /\ current_idx = 0
    /\ responses = <<>>
    /\ choice = "Option A"
    /\ screen = PromptScreen
    /\ notice = "none"
    /\ results_file = <<>>
    /\ sent = <<>>
    /\ writes = 0
    /\ finalize_clicks = 0
    /\ seen = <<>>
    /\ event = "open"
    /\ runs = <<>>

BuilderNext == StartSession

BuilderSpec == BuilderInit /\ [][BuilderNext]_vars

\* The (category, filename) pairs with a regular file in each of the trees.
InAllThreeTrees(files) ==
    {cf \in Range(DEPTH_CATEGORIES) \X {"a.png", "b.png"} :
        \A t \in Trees : <<t, cf[1], cf[2]>> \in files}

\* C13: the pool built at session start holds one item per (category,
\* filename) that is a regular file in all three trees, with the three
\* paths of that pair, and nothing else.
C13_PoolIsFilesInAllThreeTrees ==
    has_state =>
        /\ {<<t.cat, t.filename>> : t \in Range(triplets_list)} = InAllThreeTrees(fs)
        /\ Len(triplets_list) = Cardinality(InAllThreeTrees(fs))
        /\ \A t \in Range(triplets_list) :
              /\ t.img_path = <<IMAGE_DIR, t.cat, t.filename>> /\ t.img_path \in fs
              /\ t.dp_path = <<DEPTHPRO_DIR, t.cat, t.filename>> /\ t.dp_path \in fs
              /\ t.ed_path = <<ENDODAC_DIR, t.cat, t.filename>> /\ t.ed_path \in fs

\* A pool of one item built from a layout where the other name is a file in
\* two trees and a folder in the third.
C13_Witness ==
    /\ has_state
    /\ Len(triplets_list) = 1
    /\ triplets_list[1].filename = "a.png"
    /\ <<IMAGE_DIR, "mid", "b.png">> \in fs
    /\ <<DEPTHPRO_DIR, "mid", "b.png">> \in fs
    /\ <<ENDODAC_DIR, "mid", "b.png", "dir">> \in fs

---------------------------------------------------------------------------
(* Properties of the session, continued *)

\* C14: once the session state exists, triplets_list keeps its items and
\* their order in every later run.
C14_PoolNeverMutated ==
    [][has_state => (has_state' /\ triplets_list' = triplets_list)]_vars

C14_Witness ==
    /\ has_state /\ Len(triplets_list) = 2 /\ current_idx = 2
    /\ writes = 1 /\ event = "edit" /\ rater_name = "bob"

\* C17: with an empty pool the session is complete as soon as it exists: no
\* run presents a trial or records a response, and a finalize run that
\* gets to write the file writes the header row only.
C17_EmptyPoolIsCompleteAtOnce ==
    (has_state /\ Len(triplets_list) = 0) =>
        /\ Complete
        /\ screen.kind # "trial"
        /\ responses = <<>>
        /\ seen = <<>>
        /\ notice \in {"emailed", "email_failed"} =>
              results_file = <<<<"rater_name", "filename", "category", "chosen_model">>>>
        /\ \A i \in DOMAIN sent :
              sent[i] = <<<<"rater_name", "filename", "category", "chosen_model">>>>

C17_Witness ==
    /\ has_state /\ triplets_list = <<>> /\ screen.kind = "complete"
    /\ notice = "emailed" /\ Len(sent) = 1 /\ Len(results_file) = 1

\* C18: a run with the name field empty shows the prompt only and leaves
\* the session state, the results file and the emails as they were; the
\* run in which a name is entered again finds the session it left, at the
\* same cursor, and presents the trial at that cursor.
C18_EmptyNameFreezesSession ==
    [][/\ rater_name' = "" =>
             /\ screen'.kind = "prompt"
             /\ UNCHANGED <<has_state, triplets_list, current_idx, responses>>
             /\ UNCHANGED <<results_file, sent, writes, finalize_clicks>>
       /\ (rater_name = "" /\ rater_name' # "" /\ has_state) =>
             /\ UNCHANGED <<has_state, triplets_list, current_idx, responses>>
             /\ IF current_idx < Len(triplets_list)
                THEN screen'.kind = "trial" /\ screen'.item = current_idx + 1
                ELSE screen'.kind = "complete"]_vars

\* The name was emptied in the middle of a session and a click arrived.
C18_Witness ==
    /\ rater_name = "" /\ has_state /\ current_idx = 1 /\ Len(triplets_list) = 2
    /\ event = "next" /\ screen.kind = "prompt"

---------------------------------------------------------------------------
(* Two sessions of one server finalize at the same time.  Streamlit runs    *)
(* the script of each browser session in a thread of its own; the threads   *)
(* share the working directory and so the file RESULTS_FILENAME.            *)

Sessions == {1, 2}

\* The number of finalize runs of each session that are explored.
MaxRuns == 1

\* The responses a complete session may hold: of a pool of one item, or of
\* an empty pool.
SessionLogs(name) ==
    {<<>>} \cup {<<Judgment(name, Triplet("high", "a.png"), m)>> : m \in Models}

ConcInit ==
    /\ fs \in {{<<IMAGE_DIR, "high", "a.png">>, <<DEPTHPRO_DIR, "high", "a.png">>,
                <<ENDODAC_DIR, "high", "a.png">>}}
    /\ rater_name = ""
    /\ has_state = FALSE
    /\ triplets_list = <<>>
    /\ current_idx = 0
    /\ responses = <<>>
    /\ choice = "Option A"
    /\ screen = PromptScreen
    /\ notice = "none"
    /\ results_file = <<>>
    /\ sent = <<>>
    /\ writes = 0
    /\ finalize_clicks = 0
    /\ seen = <<>>
    /\ event = "open"
    /\ \E l1 \in SessionLogs("alice"), l2 \in SessionLogs("bob") :
          runs = [s \in Sessions |->
                    [responses |-> IF s = 1 THEN l1 ELSE l2, pc |-> "idle",
                     file_data |-> <<>>, done |-> 0]]

ConcFrame ==
    UNCHANGED <<fs, rater_name, has_state, triplets_list, current_idx, responses,
                choice, screen, notice, finalize_clicks, seen, event>>

\* lines 90-94 in session s: the button is pressed and df.to_excel writes
\* the session's responses to RESULTS_FILENAME.
ConcWrite(s) ==
    /\ runs[s].pc = "idle"
    /\ runs[s].done < MaxRuns
    /\ results_file' = to_excel(runs[s].responses)
    /\ writes' = writes + 1
    /\ runs' = [runs EXCEPT ![s].pc = "written"]
    /\ sent' = sent
    /\ ConcFrame

\* lines 99, 174-175 in session s: send_results_email opens
\* RESULTS_FILENAME and reads what is in it now.
ConcRead(s) ==
    /\ runs[s].pc = "written"
    /\ runs' = [runs EXCEPT ![s].pc = "read", ![s].file_data = read_file(results_file)]
    /\ UNCHANGED <<results_file, writes, sent>>
    /\ ConcFrame

\* lines 178-204 in session s: the bytes read are attached and sent, or the
\* transport fails and the function returns False.
ConcSend(s) ==
    /\ runs[s].pc = "read"
    /\ \E io \in {"ok", "send_fail"} :
          sent' = IF send_results_email(io) = "True"
                  THEN Append(sent, runs[s].file_data) ELSE sent
    /\ runs' = [runs EXCEPT ![s].pc = "idle", ![s].done = @ + 1]
    /\ UNCHANGED <<results_file, writes>>
    /\ ConcFrame

ConcNext == \E s \in Sessions : ConcWrite(s) \/ ConcRead(s) \/ ConcSend(s)

ConcSpec == ConcInit /\ [][ConcNext]_vars

\* C15: the bytes a session has read for its attachment are the sheet of
\* that session's own responses.
C15_AttachmentIsOwnLog ==
    \A s \in DOMAIN runs :
        runs[s].pc = "read" => runs[s].file_data = to_excel(runs[s].responses)

---------------------------------------------------------------------------
(* A rater who keeps a name in the field and answers every trial *)

\* The rater replaces the name by another name, never by nothing.
LiveEditName ==
    \E n \in Names \ {""} : n # rater_name /\ Run("edit", n, choice)

\* The rater clicks "Next Image" on the trial on screen.
TrialClick == screen.kind = "trial" /\ ClickNext

LiveNext == LiveEditName \/ ChangeRadio \/ ClickNext \/ ClickFinalize \/ Rerun

\* Every trial that stays on screen is answered by a click in the end.
LiveSpec == Init /\ [][LiveNext]_vars /\ WF_vars(TrialClick)

\* C16: once a name is in the field the session gets to the end of the
\* pool; the cursor moves only by a click on the trial of the item at the
\* cursor, one item at a time; and at the end there is one response per
\* pool item, in pool order, each made with its trial on screen.
C16_EveryItemJudgedOnceThenComplete ==
    /\ (rater_name # "") ~> Complete
    /\ [][current_idx' # current_idx =>
             /\ screen.kind = "trial"
             /\ screen.item = current_idx + 1
             /\ current_idx' = current_idx + 1]_vars
    /\ [](Complete =>
             /\ Len(responses) = Len(triplets_list)
             /\ Len(seen) = Len(triplets_list)
             /\ \A i \in DOMAIN triplets_list :
                   /\ responses[i][2] = triplets_list[i].filename
                   /\ responses[i][3] = triplets_list[i].cat
                   /\ seen[i] \in Models)

C16_Witness ==
    /\ Complete /\ Len(triplets_list) = 2 /\ Len(responses) = 2
    /\ rater_name = "alice" /\ event = "next"

====
